---- MODULE Spec2Model ----
(***************************************************************************)
(* A model of the rag_rust repository: the incremental indexing binary     *)
(* (src/indexing/main.rs with the file tracker, the loader, the chunker,   *)
(* the indexer and the Qdrant client) as a state machine, the chunker as a  *)
(* step-by-step loop over the lines of a text, and the query path of the   *)
(* proxy (rag_proxy/handler.rs with the retriever and the LLM client) as   *)
(* the steps of one chat request.                                          *)
(*                                                                         *)
(* Strings are sequences of characters.  A character is a one-element      *)
(* token; EACUTE stands for U+00E9, whose UTF-8 encoding takes two bytes,  *)
(* so that String::len() (a byte count) and a character count differ.      *)
(***************************************************************************)
EXTENDS Integers, Sequences, FiniteSets, TLC

(***************************************************************************)
(* Bounds of the model.                                                    *)
(***************************************************************************)
\* Longest text (in characters) given to the chunker specification.
MaxTextLen == 5
\* Largest chunk_size given to the chunker specification (sizes 1..MaxChunkSize).
MaxChunkSize == 4
\* Number of consecutive executions of the indexing binary.
MaxRuns == 2
\* Number of writes the environment makes to files of the data directory.
MaxMods == 1
\* The 64-bit DefaultHasher value is modelled modulo HashMod.
HashMod == 16
\* The 128-bit MD5 digest is modelled modulo DigestMod.
DigestMod == 7

\* Largest number of messages of a chat payload.
MaxMsgs == 2

\* The file names of the data directory.
Names == {"a.txt", "b.pdf"}

(***************************************************************************)
(* Characters and strings.                                                 *)
(***************************************************************************)
LF == "\n"
SP == " "
EACUTE == "e-acute"

Chars == {"a", SP, LF, EACUTE}

\* char::len_utf8
Utf8Len(c) == IF c = EACUTE THEN 2 ELSE 1

\* A stand-in for the code point, used by the two hash models.
CodeOf(c) == CASE c = "a" -> 97
               [] c = "b" -> 98
               [] c = SP -> 32
               [] c = LF -> 10
               [] c = EACUTE -> 233
               [] OTHER -> 63

\* char::is_whitespace, on the characters of the model.
IsWhitespace(c) == c \in {SP, LF}

\* String::len(): the length in bytes of the UTF-8 encoding (a character of
\* the model has one byte or two).
ByteLen(s) == Len(s) + Cardinality({i \in 1..Len(s) : Utf8Len(s[i]) = 2})

\* s.chars().count()
CharLen(s) == Len(s)

RECURSIVE TrimStart(_)
TrimStart(s) == IF s # <<>> /\ IsWhitespace(Head(s)) THEN TrimStart(Tail(s)) ELSE s

RECURSIVE TrimEnd(_)
TrimEnd(s) ==
    IF s # <<>> /\ IsWhitespace(s[Len(s)]) THEN TrimEnd(SubSeq(s, 1, Len(s) - 1)) ELSE s

\* str::trim
Trim(s) == TrimEnd(TrimStart(s))

RECURSIVE SplitLF(_)
\* The segments of s between line feeds (always at least one segment).
SplitLF(s) ==
    IF s = <<>> THEN << <<>> >>
    ELSE LET rest == SplitLF(Tail(s)) IN
         IF Head(s) = LF THEN << <<>> >> \o rest
         ELSE << <<Head(s)>> \o Head(rest) >> \o Tail(rest)

\* str::lines(): the segments, without the empty one after a final line feed.
Lines(s) ==
    LET segs == SplitLF(s) IN
    IF segs[Len(segs)] = <<>> THEN SubSeq(segs, 1, Len(segs) - 1) ELSE segs

(***************************************************************************)
(* The chunker (src/indexing/chunker.rs).                                  *)
(***************************************************************************)
\* The condition of the `if` at the top of the loop body.
ChunkFlushBytesPlusOne(current_chunk, line, chunk_size) ==
    ByteLen(current_chunk) + ByteLen(line) + 1 > chunk_size /\ current_chunk # <<>>

\* One iteration of `for line in lines` on the state [chunks, current_chunk].
ChunkLoopBody(st, line, chunk_size) ==
    LET flushed == IF ChunkFlushBytesPlusOne(st.current_chunk, line, chunk_size)
                   THEN [chunks |-> Append(st.chunks, Trim(st.current_chunk)),
                         current_chunk |-> <<>>]
                   ELSE st
        joined == IF flushed.current_chunk # <<>>
                  THEN flushed.current_chunk \o <<LF>>
                  ELSE flushed.current_chunk
    IN [chunks |-> flushed.chunks, current_chunk |-> joined \o line]

\* chunk_text without the flush after the loop: the last buffer is lost.
ChunkFinishWithoutLastFlush(st) == st.chunks

\* The `if !current_chunk.is_empty()` after the loop.
ChunkFinish(st) ==
    IF st.current_chunk # <<>> THEN Append(st.chunks, Trim(st.current_chunk)) ELSE st.chunks

RECURSIVE ChunkFold(_, _, _)
ChunkFold(st, lines, chunk_size) ==
    IF lines = <<>> THEN st
    ELSE ChunkFold(ChunkLoopBody(st, Head(lines), chunk_size), Tail(lines), chunk_size)

chunk_text(text, chunk_size) ==
    ChunkFinish(ChunkFold([chunks |-> <<>>, current_chunk |-> <<>>], Lines(text), chunk_size))

(***************************************************************************)
(* Hashes.  Both are modelled by a small polynomial hash, so that two       *)
(* different inputs may collide, as with the real functions.               *)
(***************************************************************************)
RECURSIVE PolyHash(_, _, _)
PolyHash(s, h, m) ==
    IF s = <<>> THEN h ELSE PolyHash(Tail(s), (h * 31 + CodeOf(Head(s))) % m, m)

\* format!("{:x}", Md5::digest(bytes)): the digest; its hexadecimal form is one-to-one.
Md5Hex(bytes) == PolyHash(bytes, 0, DigestMod)

\* DefaultHasher::new(), chunk_value.hash(), hasher.finish().
DefaultHasherFinish(chunk_value) == PolyHash(chunk_value, 5, HashMod)

\* format!("{:0>32x}") cut into the groups 8-4-4-4-12: the sixteen leading digits
\* are the zero padding, the last two groups hold the hash.
UuidString(hash_value) ==
    <<0, 0, 0, hash_value \div 4, hash_value % 4>>

(***************************************************************************)
(* The file tracker (src/indexing/file_tracker.rs).  `files` is the        *)
(* HashMap filename -> md5: a function whose domain is the tracked names.  *)
(***************************************************************************)
\* HashMap::new
EmptyMap == [k \in {} |-> 0]

\* FileTracker::new
FileTrackerNew == EmptyMap

\* HashMap::insert
MapInsert(map, key, value) ==
    [k \in DOMAIN map \cup {key} |-> IF k = key THEN value ELSE map[k]]

\* FileTracker::set_file_md5
set_file_md5(files, filename, md5) == MapInsert(files, filename, md5)

\* is_file_changed with the comparison of the two digests inverted.
is_file_changed_inverted(files, filename, content) ==
    LET current_md5 == Md5Hex(content) IN
    IF filename \in DOMAIN files THEN files[filename] = current_md5 ELSE TRUE

\* FileTracker::is_file_changed
is_file_changed(files, filename, content) ==
    LET current_md5 == Md5Hex(content) IN
    IF filename \in DOMAIN files THEN files[filename] # current_md5 ELSE TRUE

RECURSIVE SeqFilter(_, _)
SeqFilter(seq, keep) ==
    IF seq = <<>> THEN <<>>
    ELSE IF Head(seq) \in keep THEN <<Head(seq)>> \o SeqFilter(Tail(seq), keep)
         ELSE SeqFilter(Tail(seq), keep)

\* FileTracker::get_changed_files.  `dir` is the directory against which
\* fs::read(filename) resolves the bare file name: the process's working
\* directory (the function is given no directory, and joins none).
get_changed_files(files, candidates, dir) ==
    SeqFilter(candidates,
        {filename \in Names :
            IF filename \in DOMAIN dir
            THEN is_file_changed(files, filename, dir[filename])
            ELSE TRUE})

\* The persisted store, as load_from_file sees it: no file ("missing"), a file
\* of whitespace only ("blank"), the JSON text save_to_file writes
\* ("tracker_json", with the mapping it holds), the text "{}" that
\* reset_documents writes ("empty_object"), or any other text ("other").
StoreOf(kind, files) == [kind |-> kind, files |-> files]

\* load_from_file without the `if !content.trim().is_empty()`: a blank store
\* is handed to the JSON parser, which rejects it.
load_from_file_parsing_blank(self_files, store) ==
    CASE store.kind = "missing" -> [ok |-> TRUE, files |-> self_files]
      [] store.kind = "tracker_json" -> [ok |-> TRUE, files |-> store.files]
      [] OTHER -> [ok |-> FALSE, files |-> self_files]

\* FileTracker::load_from_file: the result and self.files afterwards.
load_from_file(self_files, store) ==
    CASE store.kind = "missing" -> [ok |-> TRUE, files |-> self_files]
      [] store.kind = "blank" -> [ok |-> TRUE, files |-> self_files]
      [] store.kind = "tracker_json" -> [ok |-> TRUE, files |-> store.files]
      [] OTHER -> [ok |-> FALSE, files |-> self_files]

\* FileTracker::save_to_file: the text written.
save_to_file(self_files) == StoreOf("tracker_json", self_files)

(***************************************************************************)
(* The loader (src/indexing/loader.rs): dispatch on the extension.         *)
(***************************************************************************)
\* file_path.extension(): the names of the model carry it as their last three characters.
Extension(filename) ==
    CASE filename = "a.txt" -> "txt"
      [] filename = "b.pdf" -> "pdf"
      [] OTHER -> "txt"

\* load_file_sync with the extraction error of a PDF or DOCX file returned
\* to the caller (`load_pdf_file_sync(&file_path)?`).
load_file_sync_propagating(dir, filename, readable, extracts) ==
    IF filename \in DOMAIN dir /\ readable /\ (Extension(filename) \in {"pdf", "docx"} => extracts)
    THEN [ok |-> TRUE, content |-> dir[filename]]
    ELSE [ok |-> FALSE, content |-> <<>>]

\* load_file_sync: `readable` is whether the read of the file succeeds,
\* `extracts` whether the PDF or DOCX library returns a text (it may also
\* return an error or panic, and both are caught).
load_file_sync(dir, filename, readable, extracts) ==
    IF Extension(filename) \in {"pdf", "docx"}
    THEN IF filename \in DOMAIN dir /\ readable /\ extracts
         THEN [ok |-> TRUE, content |-> dir[filename]]
         ELSE [ok |-> TRUE, content |-> <<>>]
    ELSE IF filename \in DOMAIN dir /\ readable
         THEN [ok |-> TRUE, content |-> dir[filename]]
         ELSE [ok |-> FALSE, content |-> <<>>]

(***************************************************************************)
(* The indexer (src/indexing/indexer.rs) and the Qdrant client             *)
(* (src/qdrant_custom_client.rs).                                          *)
(***************************************************************************)
\* config.indexing.chunk_size and config.indexing.embeddings_chunk_size.
chunk_size == 2
embeddings_chunk_size == 2

RECURSIVE SliceChunks(_, _)
\* slice::chunks(batch_size)
SliceChunks(seq, batch_size) ==
    IF seq = <<>> THEN <<>>
    ELSE IF Len(seq) <= batch_size THEN <<seq>>
    ELSE <<SubSeq(seq, 1, batch_size)>> \o SliceChunks(SubSeq(seq, batch_size + 1, Len(seq)), batch_size)

RECURSIVE NonEmptyChunks(_)
\* chunk_batch.iter().filter(|chunk| !chunk.trim().is_empty())
NonEmptyChunks(chunk_batch) ==
    IF chunk_batch = <<>> THEN <<>>
    ELSE IF Trim(Head(chunk_batch)) # <<>>
         THEN <<Head(chunk_batch)>> \o NonEmptyChunks(Tail(chunk_batch))
         ELSE NonEmptyChunks(Tail(chunk_batch))

RECURSIVE EmbeddingInputs(_)
\* The prompts of the embedding requests of index_chunks, in the order of the
\* two nested loops: batch after batch, the non-empty chunks of each batch.
EmbeddingInputs(batches) ==
    IF batches = <<>> THEN <<>>
    ELSE NonEmptyChunks(Head(batches)) \o EmbeddingInputs(Tail(batches))

\* The vector the embedding service answers for a prompt.
EmbeddingOf(prompt) == <<"embedding", prompt>>

\* The id of the points index_chunks builds and never sends
\* (format!("{}_{}", filename, i)), used as the id of the request.
PointIdByFileAndIndex(chunk_value, filename, i) == <<filename, i>>

\* The id upsert_points gives the point of a chunk.
PointId(chunk_value, filename, i) == UuidString(DefaultHasherFinish(chunk_value))

\* The points of the request body of upsert_points, in order.
UpsertPoints(filename, chunk_texts, chunk_embeddings) ==
    [i \in 1..Len(chunk_texts) |->
        [id |-> PointId(chunk_texts[i], filename, i - 1),
         vector |-> chunk_embeddings[i],
         payload |-> [text |-> chunk_texts[i], source |-> filename]]]

RECURSIVE ApplyUpsert(_, _)
\* The collection after the vector store has applied the points, in order:
\* a point replaces the stored point of the same id.
ApplyUpsert(collection, points) ==
    IF points = <<>> THEN collection
    ELSE ApplyUpsert(MapInsert(collection, Head(points).id,
                               [vector |-> Head(points).vector, payload |-> Head(points).payload]),
                     Tail(points))

(***************************************************************************)
(* The query path (src/rag_proxy/handler.rs, src/rag_proxy/retriever.rs,   *)
(* src/clients/llm.rs, impl IntoResponse for AppError in src/lib.rs).      *)
(*                                                                         *)
(* A payload is its raw text, a sequence of characters; the handler reads  *)
(* it through a JSON parser and edits it as text.                          *)
(***************************************************************************)
QUOTE == "\""
BACKSLASH == "\\"

\* The texts the handler and the payloads are made of.
MessagesToken == <<"\"", "m", "e", "s", "s", "a", "g", "e", "s", "\"", ":", "[">>
KeyModel == <<"m", "o", "d", "e", "l">>
KeyMessages == <<"m", "e", "s", "s", "a", "g", "e", "s">>
KeyRole == <<"r", "o", "l", "e">>
KeyContent == <<"c", "o", "n", "t", "e", "n", "t">>
KeyType == <<"t", "y", "p", "e">>
KeyText == <<"t", "e", "x", "t">>
RoleSystem == <<"s", "y", "s", "t", "e", "m">>
RoleUser == <<"u", "s", "e", "r">>
RoleAssistant == <<"a", "s", "s", "i", "s", "t", "a", "n", "t">>
TypeText == <<"t", "e", "x", "t">>
TypeImage == <<"i", "m", "a", "g", "e">>
ContextHeader == <<"-", "-", "-", SP, "C", "o", "n", "t", "e", "x", "t", SP, "f", "r", "o", "m", ":", SP, "R", "A", "G", SP, "-", "-", "-", LF>>
SystemMessageOpen == <<"{", "\"", "r", "o", "l", "e", "\"", ":", "\"", "s", "y", "s", "t", "e", "m", "\"", ",", "\"", "c", "o", "n", "t", "e", "n", "t", "\"", ":", "\"">>
SystemMessageClose == <<"\"", "}">>
NoQuestionProvided == <<"N", "o", SP, "q", "u", "e", "s", "t", "i", "o", "n", SP, "p", "r", "o", "v", "i", "d", "e", "d">>

\* serde_json's escape of one character of a string.
EscapeChar(c) ==
    CASE c = QUOTE -> <<BACKSLASH, QUOTE>>
      [] c = BACKSLASH -> <<BACKSLASH, BACKSLASH>>
      [] c = LF -> <<BACKSLASH, "n">>
      [] OTHER -> <<c>>

RECURSIVE EscapeRange(_, _, _)
\* The escapes of the characters lo..hi of s, one after the other.
EscapeRange(s, lo, hi) ==
    IF lo > hi THEN <<>>
    ELSE IF lo = hi THEN EscapeChar(s[lo])
    ELSE LET mid == (lo + hi) \div 2 IN
         EscapeRange(s, lo, mid) \o EscapeRange(s, mid + 1, hi)

\* serde_json::to_string of a string, without the two quotes around it.
JsonEscape(s) == EscapeRange(s, 1, Len(s))

RECURSIVE Concat(_)
\* The strings of a sequence, one after the other.
Concat(strings) ==
    IF strings = <<>> THEN <<>> ELSE Head(strings) \o Concat(Tail(strings))

RECURSIVE JoinWith(_, _)
\* [String]::join(sep)
JoinWith(strings, sep) ==
    IF strings = <<>> THEN <<>>
    ELSE IF Len(strings) = 1 THEN strings[1]
    ELSE strings[1] \o sep \o JoinWith(Tail(strings), sep)

\* Whether `pat` stands in `s` at position i (1-based).
MatchesAt(s, i, pat) ==
    /\ i + Len(pat) - 1 <= Len(s)
    /\ \A k \in 1..Len(pat) : s[i + k - 1] = pat[k]

\* str::find: the byte offset (0-based) of the first occurrence of pat in s,
\* -1 for None.
Find(s, pat) ==
    LET hits == {i \in 1..(Len(s) + 1) : MatchesAt(s, i, pat)} IN
    IF hits = {} THEN -1
    ELSE ByteLen(SubSeq(s, 1, (CHOOSE i \in hits : \A j \in hits : i <= j) - 1))

RECURSIVE Interleave(_, _, _, _)
\* `to` before each of the characters lo..hi of s.
Interleave(s, lo, hi, to) ==
    IF lo > hi THEN <<>>
    ELSE IF lo = hi THEN to \o <<s[lo]>>
    ELSE LET mid == (lo + hi) \div 2 IN
         Interleave(s, lo, mid, to) \o Interleave(s, mid + 1, hi, to)

RECURSIVE ReplaceFrom(_, _, _, _)
\* str::replace with a non-empty pattern, from position i on: the
\* non-overlapping occurrences of `from`, left to right, each replaced by `to`.
ReplaceFrom(s, i, from, to) ==
    LET hits == {j \in i..Len(s) : MatchesAt(s, j, from)} IN
    IF hits = {} THEN SubSeq(s, i, Len(s))
    ELSE LET j == CHOOSE h \in hits : \A g \in hits : h <= g IN
         SubSeq(s, i, j - 1) \o to \o ReplaceFrom(s, j + Len(from), from, to)

\* str::replace; an empty pattern matches before every character and at the end.
Replace(s, from, to) ==
    IF from = <<>> THEN Interleave(s, 1, Len(s), to) \o to
    ELSE ReplaceFrom(s, 1, from, to)

\* The two parts of s before and from the byte offset n; ok is FALSE when n
\* is inside a character or beyond the end (the slicing or insertion panics).
SplitAtByte(s, n) ==
    LET cuts == {k \in 0..Len(s) : ByteLen(SubSeq(s, 1, k)) = n} IN
    IF cuts = {} THEN [ok |-> FALSE, left |-> <<>>, right |-> <<>>]
    ELSE LET k == CHOOSE c \in cuts : TRUE IN
         [ok |-> TRUE, left |-> SubSeq(s, 1, k), right |-> SubSeq(s, k + 1, Len(s))]

\* String::insert_str(idx, text): the text inserted at the byte offset idx.
InsertStr(s, idx, text) ==
    LET cut == SplitAtByte(s, idx) IN
    [ok |-> cut.ok, value |-> cut.left \o text \o cut.right]

(***************************************************************************)
(* serde_json on the payload: strings with the escapes \" \\ \n, arrays,   *)
(* objects and the literals false, true, null.  Positions are 1-based      *)
(* character positions; a `next` of 0 is a syntax error.                   *)
(***************************************************************************)
ParseFail == [ok |-> FALSE, value |-> <<>>, next |-> 0]

RECURSIVE SkipWs(_, _)
SkipWs(raw, i) ==
    IF i <= Len(raw) /\ raw[i] \in {SP, LF} THEN SkipWs(raw, i + 1) ELSE i

\* The number of backslashes in a row that end right before position j,
\* counted from position i on.
BackslashRun(raw, i, j) ==
    Cardinality({k \in i..(j - 1) : \A m \in k..(j - 1) : raw[m] = BACKSLASH})

\* Whether the character at position p, inside the string that starts at i,
\* is the second character of an escape.
IsEscaped(raw, i, p) ==
    p > i /\ raw[p - 1] = BACKSLASH /\ BackslashRun(raw, i, p) % 2 = 1

\* Whether position p, inside the string that starts at i, begins an escape.
IsEscapeStart(raw, i, p) == raw[p] = BACKSLASH /\ ~IsEscaped(raw, i, p)

\* The character an escape stands for.
Unescaped(c) == IF c = "n" THEN LF ELSE c

\* The rest of a JSON string from position i, after its opening quote: the
\* string ends at the first quote that no backslash escapes.
ScanString(raw, i) ==
    LET closing == {j \in i..Len(raw) : raw[j] = QUOTE /\ ~IsEscaped(raw, i, j)}
        j == CHOOSE c \in closing : \A d \in closing : c <= d
        inner == [k \in 1..(j - i) |-> i + k - 1]
        kept == SelectSeq(inner, LAMBDA p : ~IsEscapeStart(raw, i, p))
    IN IF closing = {} THEN ParseFail
       ELSE IF \E p \in i..(j - 1) :
                   \/ raw[p] = LF
                   \/ IsEscapeStart(raw, i, p) /\ raw[p + 1] \notin {QUOTE, BACKSLASH, "n"}
       THEN ParseFail
       ELSE [ok |-> TRUE,
             value |-> [k \in 1..Len(kept) |->
                           IF IsEscaped(raw, i, kept[k])
                           THEN Unescaped(raw[kept[k]]) ELSE raw[kept[k]]],
             next |-> j + 1]

\* A JSON string at position i: its (unescaped) value and the position after it.
ParseString(raw, i) ==
    IF i <= Len(raw) /\ raw[i] = QUOTE THEN ScanString(raw, i + 1) ELSE ParseFail

RECURSIVE SkipValue(_, _)
RECURSIVE ElementsFrom(_, _, _)
RECURSIVE MembersFrom(_, _, _)

\* The elements of an array from position i, the start of an element: the
\* positions of the elements and the position after the closing bracket.
ElementsFrom(raw, i, acc) ==
    LET at == SkipWs(raw, i)
        e == SkipValue(raw, at)
        j == SkipWs(raw, e)
    IN IF e = 0 \/ j > Len(raw) THEN ParseFail
       ELSE IF raw[j] = "," THEN ElementsFrom(raw, j + 1, Append(acc, at))
       ELSE IF raw[j] = "]" THEN [ok |-> TRUE, value |-> Append(acc, at), next |-> j + 1]
       ELSE ParseFail

\* The members of an object from position i, the start of a key: the keys with
\* the positions of their values, and the position after the closing brace.
MembersFrom(raw, i, acc) ==
    LET k == ParseString(raw, SkipWs(raw, i))
        c == SkipWs(raw, k.next)
        at == SkipWs(raw, c + 1)
        e == SkipValue(raw, at)
        j == SkipWs(raw, e)
        member == [key |-> k.value, at |-> at]
    IN IF ~k.ok \/ c > Len(raw) THEN ParseFail
       ELSE IF raw[c] # ":" THEN ParseFail
       ELSE IF e = 0 \/ j > Len(raw) THEN ParseFail
       ELSE IF raw[j] = "," THEN MembersFrom(raw, j + 1, Append(acc, member))
       ELSE IF raw[j] = "}" THEN [ok |-> TRUE, value |-> Append(acc, member), next |-> j + 1]
       ELSE ParseFail

\* An array at position i (its opening bracket).
ParseArray(raw, i) ==
    IF i > Len(raw) THEN ParseFail
    ELSE IF raw[i] # "[" THEN ParseFail
    ELSE LET j == SkipWs(raw, i + 1) IN
         IF j <= Len(raw) /\ raw[j] = "]" THEN [ok |-> TRUE, value |-> <<>>, next |-> j + 1]
         ELSE ElementsFrom(raw, j, <<>>)

\* An object at position i (its opening brace).
ParseObject(raw, i) ==
    IF i > Len(raw) THEN ParseFail
    ELSE IF raw[i] # "{" THEN ParseFail
    ELSE LET j == SkipWs(raw, i + 1) IN
         IF j <= Len(raw) /\ raw[j] = "}" THEN [ok |-> TRUE, value |-> <<>>, next |-> j + 1]
         ELSE MembersFrom(raw, j, <<>>)

\* The position after the JSON value at position i, 0 if there is none.
SkipValue(raw, i) ==
    IF i = 0 \/ i > Len(raw) THEN 0
    ELSE IF raw[i] = QUOTE THEN ParseString(raw, i).next
    ELSE IF raw[i] = "[" THEN ParseArray(raw, i).next
    ELSE IF raw[i] = "{" THEN ParseObject(raw, i).next
    ELSE IF MatchesAt(raw, i, <<"f", "a", "l", "s", "e">>) THEN i + 5
    ELSE IF MatchesAt(raw, i, <<"t", "r", "u", "e">>) THEN i + 4
    ELSE IF MatchesAt(raw, i, <<"n", "u", "l", "l">>) THEN i + 4
    ELSE 0

\* serde_json::from_str::<serde_json::Value>(text).is_ok()
IsJson(text) ==
    LET e == SkipValue(text, SkipWs(text, 1)) IN
    e # 0 /\ SkipWs(text, e) = Len(text) + 1

\* Value::get(key) on the members of an object: the position of the value, 0 for None.
MemberAt(members, key) ==
    LET hits == {m \in 1..Len(members) : members[m].key = key} IN
    IF hits = {} THEN 0 ELSE members[CHOOSE m \in hits : \A n \in hits : n <= m].at

(***************************************************************************)
(* serde_json::from_slice::<ChatCompletionRequest> (handler.rs, the        *)
(* structures of lines 23-59) and the question of the request.             *)
(***************************************************************************)
NoContentPart == [ok |-> FALSE, type |-> <<>>, has_text |-> FALSE, text |-> <<>>]

\* ContentPart from the values of its members: `type` is required, `text` is
\* optional (absent or null: None).
ContentPartOf(raw, type_at, text_at, type, text) ==
    IF type_at = 0 THEN NoContentPart
    ELSE IF ~type.ok THEN NoContentPart
    ELSE IF text_at = 0 THEN [ok |-> TRUE, type |-> type.value, has_text |-> FALSE, text |-> <<>>]
    ELSE IF MatchesAt(raw, text_at, <<"n", "u", "l", "l">>)
    THEN [ok |-> TRUE, type |-> type.value, has_text |-> FALSE, text |-> <<>>]
    ELSE IF ~text.ok THEN NoContentPart
    ELSE [ok |-> TRUE, type |-> type.value, has_text |-> TRUE, text |-> text.value]

ContentPartAt(raw, type_at, text_at) ==
    ContentPartOf(raw, type_at, text_at, ParseString(raw, type_at), ParseString(raw, text_at))

ContentPartIn(raw, obj) ==
    IF ~obj.ok THEN NoContentPart
    ELSE ContentPartAt(raw, MemberAt(obj.value, KeyType), MemberAt(obj.value, KeyText))

\* ContentPart at position i.
ParseContentPart(raw, i) == ContentPartIn(raw, ParseObject(raw, i))

NoContent == [ok |-> FALSE, kind |-> "none", text |-> <<>>, parts |-> <<>>]

ContentOfParts(parts) ==
    IF \E k \in 1..Len(parts) : ~parts[k].ok THEN NoContent
    ELSE [ok |-> TRUE, kind |-> "Parts", text |-> <<>>, parts |-> parts]

ContentOf(raw, text, arr) ==
    IF text.ok THEN [ok |-> TRUE, kind |-> "Text", text |-> text.value, parts |-> <<>>]
    ELSE IF ~arr.ok THEN NoContent
    ELSE ContentOfParts([k \in 1..Len(arr.value) |-> ParseContentPart(raw, arr.value[k])])

\* MessageContent, untagged: a string (Text) or an array of parts (Parts).
ParseContent(raw, i) == ContentOf(raw, ParseString(raw, i), ParseArray(raw, i))

NoChatMessage == [ok |-> FALSE, role |-> <<>>, content |-> NoContent]

ChatMessageOf(role, content) ==
    IF ~role.ok \/ ~content.ok THEN NoChatMessage
    ELSE [ok |-> TRUE, role |-> role.value, content |-> content]

ChatMessageAt(raw, role_at, content_at) ==
    IF role_at = 0 \/ content_at = 0 THEN NoChatMessage
    ELSE ChatMessageOf(ParseString(raw, role_at), ParseContent(raw, content_at))

ChatMessageIn(raw, obj) ==
    IF ~obj.ok THEN NoChatMessage
    ELSE ChatMessageAt(raw, MemberAt(obj.value, KeyRole), MemberAt(obj.value, KeyContent))

\* ChatMessage: `role` and `content` are required.
ParseChatMessage(raw, i) == ChatMessageIn(raw, ParseObject(raw, i))

NoChatCompletionRequest == [ok |-> FALSE, messages |-> <<>>]

ChatCompletionRequestOfMessages(messages) ==
    IF \E k \in 1..Len(messages) : ~messages[k].ok THEN NoChatCompletionRequest
    ELSE [ok |-> TRUE, messages |-> messages]

ChatCompletionRequestOf(raw, model, arr) ==
    IF ~model.ok \/ ~arr.ok THEN NoChatCompletionRequest
    ELSE ChatCompletionRequestOfMessages(
             [k \in 1..Len(arr.value) |-> ParseChatMessage(raw, arr.value[k])])

ChatCompletionRequestAt(raw, model_at, messages_at) ==
    IF model_at = 0 \/ messages_at = 0 THEN NoChatCompletionRequest
    ELSE ChatCompletionRequestOf(raw, ParseString(raw, model_at), ParseArray(raw, messages_at))

ChatCompletionRequestIn(raw, obj) ==
    IF ~obj.ok THEN NoChatCompletionRequest
    ELSE IF SkipWs(raw, obj.next) # Len(raw) + 1 THEN NoChatCompletionRequest
    ELSE ChatCompletionRequestAt(raw, MemberAt(obj.value, KeyModel),
                                 MemberAt(obj.value, KeyMessages))

\* serde_json::from_slice::<ChatCompletionRequest>: `model` and `messages` are
\* required; other members are ignored.
ParseChatCompletionRequest(raw) == ChatCompletionRequestIn(raw, ParseObject(raw, SkipWs(raw, 1)))

RECURSIVE TextParts(_)
\* The texts of the parts of type "text" that have a text, in order.
TextParts(parts) ==
    IF parts = <<>> THEN <<>>
    ELSE IF Head(parts).type = TypeText /\ Head(parts).has_text
         THEN <<Head(parts).text>> \o TextParts(Tail(parts))
         ELSE TextParts(Tail(parts))

\* The text of a message content: the string, or the text parts joined by a space.
ContentText(content) ==
    IF content.kind = "Text" THEN content.text ELSE JoinWith(TextParts(content.parts), <<SP>>)

\* handler.rs lines 95-120: messages.last(), or else the first message of
\* role "user", mapped to its text, or else the placeholder.
UserQuestion(messages) ==
    LET users == {k \in 1..Len(messages) : messages[k].role = RoleUser}
        picked == IF messages # <<>> THEN Len(messages)
                  ELSE IF users # {} THEN CHOOSE k \in users : \A j \in users : k <= j
                  ELSE 0
    IN IF picked = 0 THEN NoQuestionProvided ELSE ContentText(messages[picked].content)

(***************************************************************************)
(* The retriever (retriever.rs) and the injection of the context in the    *)
(* payload (handler.rs lines 129-245).                                     *)
(***************************************************************************)
\* config.qdrant.limit, config.qdrant.score_threshold and
\* config.rag_proxy.system_message_fingerprint_length.
limit == 2
score_threshold == "config.qdrant.score_threshold"
system_message_fingerprint_length == 2

\* handler.rs line 219: `messages_start + 10`.
MessagesTokenOffset == 10

\* retriever.rs lines 93-99: the arguments of the call of search_points that
\* follow the collection and the vector, config.qdrant.limit and None.
SearchPointsArgs == <<limit, "None">>

\* qdrant_custom_client.rs lines 473-494: the body of the search request; the
\* parameters that follow the vector are limit and score_threshold.
SearchRequest(question_vector) ==
    [query |-> question_vector, limit |-> SearchPointsArgs[1],
     score_threshold |-> SearchPointsArgs[2], with_payload |-> TRUE, with_vector |-> FALSE]

RECURSIVE PayloadTexts(_)
\* search_results.into_iter().filter_map(|point| point.payload).map(|payload| payload.text)
PayloadTexts(search_results) ==
    IF search_results = <<>> THEN <<>>
    ELSE IF Head(search_results).has_payload
         THEN <<Head(search_results).text>> \o PayloadTexts(Tail(search_results))
         ELSE PayloadTexts(Tail(search_results))

\* The separator of the texts of the context.
ContextSeparator == <<LF, LF>>

\* retrieve_context, lines 106-114: the context made of the search results.
ContextOf(search_results) == JoinWith(PayloadTexts(search_results), ContextSeparator)

\* The content of the last message of role "system": [some, text].
OriginalSystemContent(messages) ==
    LET systems == {k \in 1..Len(messages) : messages[k].role = RoleSystem} IN
    IF systems = {} THEN [some |-> FALSE, text |-> <<>>]
    ELSE [some |-> TRUE,
          text |-> ContentText(messages[CHOOSE k \in systems : \A j \in systems : j <= k].content)]

\* handler.rs lines 186-194: the last fingerprint_length bytes of the content,
\* the whole content when it has no more; ok is FALSE when the slice panics.
Fingerprint(original_content, fingerprint_length) ==
    LET fingerprint_end == IF ByteLen(original_content) > fingerprint_length
                           THEN ByteLen(original_content) - fingerprint_length
                           ELSE 0
        cut == SplitAtByte(original_content, fingerprint_end)
    IN [ok |-> cut.ok, value |-> cut.right]

\* handler.rs lines 131-241: the payload with new_context injected; ok is
\* FALSE when the handler panics.
InjectInto(request_str, messages, new_context, fingerprint_length) ==
    LET original == OriginalSystemContent(messages)
        fingerprint == Fingerprint(original.text, fingerprint_length)
        escaped_fingerprint == JsonEscape(fingerprint.value)
        escaped_new_context == JsonEscape(new_context)
        replacement == fingerprint.value \o escaped_new_context
        messages_start == Find(request_str, MessagesToken)
        array_start == messages_start + MessagesTokenOffset
        system_message_json == SystemMessageOpen \o escaped_new_context \o SystemMessageClose
    IN IF original.some
       THEN IF fingerprint.ok
            THEN [ok |-> TRUE, value |-> Replace(request_str, escaped_fingerprint, replacement)]
            ELSE [ok |-> FALSE, value |-> <<>>]
       ELSE IF messages_start # -1
            THEN InsertStr(request_str, array_start, system_message_json \o <<",">>)
            ELSE [ok |-> TRUE, value |-> request_str]

InjectContextAlways(request_str, messages, context, fingerprint_length) ==
    InjectInto(request_str, messages, ContextHeader \o context, fingerprint_length)

\* handler.rs lines 129-245: modified_request_str.
InjectContext(request_str, messages, context, fingerprint_length) ==
    IF context = <<>> THEN [ok |-> TRUE, value |-> request_str]
    ELSE InjectInto(request_str, messages, ContextHeader \o context, fingerprint_length)

(***************************************************************************)
(* AppError and its response (lib.rs lines 65-119).                        *)
(***************************************************************************)
\* impl IntoResponse for AppError: the status of each variant.
StatusOf(error) ==
    CASE error = "Io" -> 500
      [] error = "Toml" -> 500
      [] error = "Reqwest" -> 502
      [] error = "Json" -> 400
      [] error = "Qdrant" -> 502
      [] error = "Config" -> 500
      [] error = "Pdf" -> 500
      [] error = "Docx" -> 500
      [] error = "Llm" -> 502
      [] error = "Unknown" -> 500

\* impl From<String> for AppError: the variant of an error that is a message.
FromString == "Unknown"

\* The body of the response of an AppError.
ErrorBody == <<"{", QUOTE, "e", "r", "r", "o", "r", QUOTE, ":", "{", QUOTE, "m", "e", "s", "s", "a", "g", "e", QUOTE, ":", QUOTE, "e", QUOTE, ",", QUOTE, "t", "y", "p", "e", QUOTE, ":", QUOTE, "A", "p", "p", "E", "r", "r", "o", "r", QUOTE, "}", "}">>

\* The response of the handler for an AppError.
ErrorResponse(error) ==
    [kind |-> "error", error |-> error, status |-> StatusOf(error),
     content_type |-> "application/json", body |-> ErrorBody]

\* Whether position p of a JSON text is inside a string (or is its closing
\* quote): the quotes before it that no backslash escapes are odd in number.
InString(text, p) ==
    Cardinality({q \in 1..(p - 1) : text[q] = QUOTE /\ ~IsEscaped(text, 1, q)}) % 2 = 1

\* axum::Json(json_value): the value parsed from the text, serialized again
\* (the text without the whitespace that is outside its strings).
JsonBody(text) ==
    LET positions == [k \in 1..Len(text) |-> k]
        kept == SelectSeq(positions, LAMBDA p : text[p] \notin {SP, LF} \/ InString(text, p))
    IN [k \in 1..Len(kept) |-> text[kept[k]]]

LlmResponseRejectingText(body) ==
    IF IsJson(body)
    THEN [kind |-> "ok", error |-> "", status |-> 200,
          content_type |-> "application/json", body |-> JsonBody(body)]
    ELSE ErrorResponse("Json")

\* handler.rs lines 259-280: the response made of the body of the LLM.
LlmResponse(body) ==
    IF IsJson(body)
    THEN [kind |-> "ok", error |-> "", status |-> 200,
          content_type |-> "application/json", body |-> JsonBody(body)]
    ELSE [kind |-> "ok", error |-> "", status |-> 200,
          content_type |-> "text/plain", body |-> body]

(***************************************************************************)
(* The texts the files of the data directory hold in the indexing          *)
(* specification.  With chunk_size = 2:                                    *)
(*   TxtABA  "a\nb\na"  three chunks "a", "b", "a" (two batches)           *)
(*   TxtA    "a"        one chunk "a"                                      *)
(*   TxtSpB  " \nb"     an empty chunk (the trimmed " ") and the chunk "b" *)
(*   TxtNone ""         no chunk                                           *)
(***************************************************************************)
TxtABA == <<"a", LF, "b", LF, "a">>
TxtA == <<"a">>
TxtSpB == <<SP, LF, "b">>
TxtNone == <<>>
FileTexts == {TxtABA, TxtA, TxtSpB, TxtNone}

\* The data directory when the first run starts.
InitDirs ==
    { [n \in Names |-> IF n = "a.txt" THEN TxtABA ELSE TxtA],
      [n \in {"a.txt"} |-> TxtSpB] }

\* The persisted store when the first run starts.
InitStores == {StoreOf("missing", EmptyMap), StoreOf("blank", EmptyMap), StoreOf("other", EmptyMap)}

VARIABLES
    run,               \* the number of the current execution of the indexing binary
    pc,                \* where main is
    dataDir,           \* the data directory: file name -> content
    cwd,               \* the working directory of the process: "data_dir" | "elsewhere"
    store,             \* the persisted tracker store
    collection,        \* the vector store's collection: point id -> point
    mods,              \* the number of writes the environment has made
    tracker,           \* main: tracker.files
    files,             \* main: files
    files_to_process,  \* main: the part of files_to_process the loop has not visited
    file_name,         \* main: file_name
    content,           \* main: content
    todo,              \* index_chunks: the embedding requests still to issue
    chunk_texts,       \* index_chunks: chunk_texts
    chunk_embeddings,  \* index_chunks: chunk_embeddings
    log,               \* history: the steps taken for the current file, in order
    sum,               \* history: what the current run has done so far
    prev               \* history: what the previous run did

runVars == <<run, pc, dataDir, cwd, store, collection, mods, tracker, files, files_to_process,
             file_name, content, todo, chunk_texts, chunk_embeddings, log, sum, prev>>

VARIABLES
    ck_pc,        \* chunker: "idle" | "loop" | "done"
    ck_text,      \* chunker: the text argument
    ck_size,      \* chunker: the chunk_size argument
    ck_lines,     \* chunker: the lines not yet visited
    ck_st,        \* chunker: [chunks, current_chunk]
    ck_hist       \* chunker: one record per visited line (what the iteration saw and did)

ckVars == <<ck_pc, ck_text, ck_size, ck_lines, ck_st, ck_hist>>

VARIABLES
    hpc,                   \* where handle_rag_request is
    request,               \* handler: the bytes of the request
    chat_request,          \* handler: chat_request.messages
    user_question,         \* handler: user_question
    search_results,        \* retriever: search_results
    context,               \* handler: context
    modified_request_str,  \* handler: modified_request_str
    llm_response_body,     \* handler: the body read from the LLM response, <<>> before it is read
    calls,                 \* history: the requests sent to the three services, in order
    response               \* what the client is answered

hVars == <<hpc, request, chat_request, user_question, search_results, context, modified_request_str,
           llm_response_body,
           calls, response>>

vars == <<runVars, ckVars, hVars>>


RECURSIVE SeqsUpTo(_, _)
SeqsUpTo(S, n) ==
    IF n = 0 THEN {<<>>}
    ELSE LET shorter == SeqsUpTo(S, n - 1) IN
         shorter \cup {Append(s, c) : s \in {t \in shorter : Len(t) = n - 1}, c \in S}

CkIdle ==
    /\ ck_pc = "idle" /\ ck_text = <<>> /\ ck_size = 1 /\ ck_lines = <<>>
    /\ ck_st = [chunks |-> <<>>, current_chunk |-> <<>>] /\ ck_hist = <<>>

\* A call chunk_text(text, chunk_size): the state before the loop.
CkInit ==
    /\ ck_pc = "loop"
    /\ ck_text \in SeqsUpTo(Chars, MaxTextLen)
    /\ ck_size \in 1..MaxChunkSize
    /\ ck_lines = Lines(ck_text)
    /\ ck_st = [chunks |-> <<>>, current_chunk |-> <<>>]
    /\ ck_hist = <<>>

\* One iteration of the loop.
CkLine ==
    /\ ck_pc = "loop" /\ ck_lines # <<>>
    /\ ck_st' = ChunkLoopBody(ck_st, Head(ck_lines), ck_size)
    /\ ck_lines' = Tail(ck_lines)
    /\ ck_hist' = Append(ck_hist,
            [before |-> ck_st.current_chunk, line |-> Head(ck_lines),
             flushed |-> Len(ck_st'.chunks) > Len(ck_st.chunks)])
    /\ UNCHANGED <<ck_pc, ck_text, ck_size, runVars, hVars>>

\* The end of the loop: the last flush and the return.
CkReturn ==
    /\ ck_pc = "loop" /\ ck_lines = <<>>
    /\ ck_st' = [chunks |-> ChunkFinish(ck_st), current_chunk |-> <<>>]
    /\ ck_pc' = "done"
    /\ UNCHANGED <<ck_text, ck_size, ck_lines, ck_hist, runVars, hVars>>

(***************************************************************************)
(* The chat payloads the handler is given.                                 *)
(***************************************************************************)
\* A byte that is not UTF-8.
INVALID_BYTE == "byte-ff"

\* std::str::from_utf8(&request).is_ok()
IsUtf8(bytes) == \A i \in 1..Len(bytes) : bytes[i] # INVALID_BYTE

\* A string as a client writes it in a payload.
RawString(text) == <<QUOTE>> \o JsonEscape(text) \o <<QUOTE>>

\* The texts of the message contents of the payloads.
ContentTexts == {<<"a", "b">>, <<"b">>, <<>>, <<"a", QUOTE>>, <<EACUTE, "a">>}

\* A multi-part content: two text parts around a part that is not a text.
RawPartsContent ==
    <<"[", "{", QUOTE, "t", "y", "p", "e", QUOTE, ":", QUOTE, "t", "e", "x", "t", QUOTE, ",", QUOTE, "t", "e", "x", "t", QUOTE, ":", QUOTE, "a", QUOTE, "}", ",", "{", QUOTE, "t", "y", "p", "e", QUOTE, ":", QUOTE, "i", "m", "a", "g", "e", QUOTE, "}", ",", "{", QUOTE, "t", "y", "p", "e", QUOTE, ":", QUOTE, "t", "e", "x", "t", QUOTE, ",", QUOTE, "t", "e", "x", "t", QUOTE, ":", QUOTE, "b", QUOTE, "}", "]">>

RawContents == {RawString(t) : t \in ContentTexts} \cup {RawPartsContent}

RawMessage(role, raw_content) ==
    <<"{", QUOTE, "r", "o", "l", "e", QUOTE, ":", QUOTE>> \o role \o <<QUOTE, ",", QUOTE, "c", "o", "n", "t", "e", "n", "t", QUOTE, ":">> \o raw_content \o <<"}">>

\* The messages of the payloads: system messages of every content, user and
\* assistant messages of a few.
RawMessages ==
    {RawMessage(RoleSystem, c) : c \in RawContents}
        \cup {RawMessage(RoleUser, c) : c \in {RawString(<<"a", "b">>), RawString(<<"b">>), RawPartsContent}}
        \cup {RawMessage(RoleAssistant, c) : c \in {RawString(<<"a", "b">>), RawString(<<"b">>)}}

\* A payload: `colon` is what the client writes between the key "messages"
\* and the array.
RawPayload(raw_messages, colon) ==
    <<"{", QUOTE, "m", "o", "d", "e", "l", QUOTE, ":", QUOTE, "m", QUOTE, ",", QUOTE, "m", "e", "s", "s", "a", "g", "e", "s", QUOTE>> \o colon \o <<"[">> \o JoinWith(raw_messages, <<",">>) \o <<"]", ",", QUOTE, "s", "t", "r", "e", "a", "m", QUOTE, ":", "f", "a", "l", "s", "e", "}">>

\* Payloads the typed parser refuses: a truncated text, one without `model`,
\* one with a null content, and bytes that are not UTF-8.
MalformedPayloads ==
    { <<"{", QUOTE, "m", "o", "d", "e", "l", QUOTE, ":", QUOTE, "m", QUOTE>>,
      <<"{", QUOTE, "m", "e", "s", "s", "a", "g", "e", "s", QUOTE, ":", "[", "]", "}">>,
      <<"{", QUOTE, "m", "o", "d", "e", "l", QUOTE, ":", QUOTE, "m", QUOTE, ",", QUOTE, "m", "e", "s", "s", "a", "g", "e", "s", QUOTE, ":", "[", "{", QUOTE, "r", "o", "l", "e", QUOTE, ":", QUOTE, "a", "s", "s", "i", "s", "t", "a", "n", "t", QUOTE, ",", QUOTE, "c", "o", "n", "t", "e", "n", "t", QUOTE, ":", "n", "u", "l", "l", "}", "]", "}">>,
      <<"{", INVALID_BYTE, "}">> }

\* The payloads: compact ones of up to MaxMsgs messages, the same with a
\* space after the key "messages" for those of at most one message, and the
\* malformed ones.
Payloads ==
    {RawPayload(ms, <<":">>) : ms \in SeqsUpTo(RawMessages, MaxMsgs)}
        \cup {RawPayload(ms, <<":", SP>>) : ms \in SeqsUpTo(RawMessages, 1)}
        \cup MalformedPayloads

\* What the vector store may answer to a search: points with a payload text,
\* and a point without payload.
PointC == [has_payload |-> TRUE, text |-> <<"c">>]
PointD == [has_payload |-> TRUE, text |-> <<"d", QUOTE>>]
PointBare == [has_payload |-> FALSE, text |-> <<>>]
SearchAnswers ==
    {<<>>, <<PointC>>, <<PointC, PointD>>, <<PointD, PointC>>, <<PointBare, PointC>>, <<PointBare>>}

\* The bodies the LLM backend may answer.
LlmBodies ==
    { <<"{", SP, "}">>,
      <<"{", QUOTE, "a", QUOTE, ":", SP, QUOTE, "b", SP, "c", QUOTE, "}">>,
      <<"h", "i">>,
      <<"{", QUOTE, "a", QUOTE>>,
      <<>> }

NoResponse == [kind |-> "none", error |-> "", status |-> 0, content_type |-> "", body |-> <<>>]

\* The handler task ended by a panic: no response is built.
PanicResponse == [kind |-> "panic", error |-> "", status |-> 0, content_type |-> "", body |-> <<>>]

Call(op, arg, ok) == [op |-> op, arg |-> arg, ok |-> ok]

HandlerIdle ==
    /\ hpc = "idle" /\ request = <<>> /\ chat_request = <<>> /\ user_question = <<>> /\ search_results = <<>>
    /\ context = <<>> /\ modified_request_str = <<>> /\ llm_response_body = <<>> /\ calls = <<>> /\ response = NoResponse

\* A request arrives at handle_rag_request.
HandlerInit ==
    /\ hpc = "parse" /\ request \in Payloads /\ chat_request = <<>> /\ user_question = <<>> /\ search_results = <<>>
    /\ context = <<>> /\ modified_request_str = <<>> /\ llm_response_body = <<>> /\ calls = <<>> /\ response = NoResponse

(***************************************************************************)
(* The indexing binary (src/indexing/main.rs), one action per step.        *)
(*                                                                         *)
(* History: `log` holds the steps taken for the current file (it is        *)
(* emptied when the loop takes the next file), `sum` what the current run  *)
(* has done so far, `prev` what the previous run did.                      *)
(***************************************************************************)
LogEntry(op, file, arg, ok) == [op |-> op, file |-> file, arg |-> arg, ok |-> ok]

Last(seq) == seq[Len(seq)]

\* The positions of the log entries of kind op.
Positions(lg, op) == {i \in 1..Len(lg) : lg[i].op = op}

NoSum == [exit |-> "none", selected |-> {}, anyEmbed |-> FALSE, upsertFailed |-> {},
          indexed |-> {}, recorded |-> {}, written |-> {}]

SeqToSet(seq) == {seq[i] : i \in 1..Len(seq)}

RunInit ==
    /\ run = 1 /\ pc = "load_tracker"
    /\ dataDir \in InitDirs
    /\ cwd \in {"data_dir", "elsewhere"}
    /\ store \in InitStores
    /\ collection = EmptyMap
    /\ mods = 0
    /\ tracker = FileTrackerNew
    /\ files = <<>> /\ files_to_process = <<>> /\ file_name = "" /\ content = <<>>
    /\ todo = <<>> /\ chunk_texts = <<>> /\ chunk_embeddings = <<>>
    /\ log = <<>> /\ sum = NoSum /\ prev = NoSum

\* The directory fs::read(filename) resolves a bare file name against.
WorkingDir == IF cwd = "data_dir" THEN dataDir ELSE EmptyMap

\* The orders in which fs::read_dir may list the files of a directory.
Listings(dir) ==
    {sq \in SeqsUpTo(DOMAIN dir, Cardinality(DOMAIN dir)) :
        Len(sq) = Cardinality(DOMAIN dir) /\ SeqToSet(sq) = DOMAIN dir}

\* main, lines 26-28: FileTracker::new, load_from_file, `?`.
LoadTracker ==
    /\ pc = "load_tracker"
    /\ LET r == load_from_file(tracker, store) IN
        /\ tracker' = r.files
        /\ pc' = IF r.ok THEN "list" ELSE "exit_err"
        /\ log' = <<LogEntry("load_tracker", "", <<>>, r.ok)>>
    /\ UNCHANGED <<run, dataDir, cwd, store, collection, mods, files, files_to_process,
                   file_name, content, todo, chunk_texts, chunk_embeddings, sum, prev,
                   ckVars, hVars>>

\* main, lines 30-46: the names of the files of the data directory.
ListFiles ==
    /\ pc = "list"
    /\ \E listing \in Listings(dataDir) : files' = listing
    /\ pc' = "select"
    /\ UNCHANGED <<run, dataDir, cwd, store, collection, mods, tracker, files_to_process,
                   file_name, content, todo, chunk_texts, chunk_embeddings, log, sum, prev,
                   ckVars, hVars>>

\* main, line 49: get_changed_files.
SelectChanged ==
    /\ pc = "select"
    /\ files_to_process' = get_changed_files(tracker, files, WorkingDir)
    /\ pc' = "loop"
    /\ log' = <<LogEntry("select", "", files_to_process', TRUE)>>
    /\ sum' = [sum EXCEPT !.selected = SeqToSet(files_to_process')]
    /\ UNCHANGED <<run, dataDir, cwd, store, collection, mods, tracker, files,
                   file_name, content, todo, chunk_texts, chunk_embeddings, prev,
                   ckVars, hVars>>

\* main, line 54: the head of `for file_name in files_to_process`.
LoopHead ==
    /\ pc = "loop"
    /\ IF files_to_process = <<>>
       THEN pc' = "save" /\ UNCHANGED <<file_name, files_to_process>>
       ELSE /\ pc' = "load"
            /\ file_name' = Head(files_to_process)
            /\ files_to_process' = Tail(files_to_process)
    /\ log' = <<>>
    /\ UNCHANGED <<run, dataDir, cwd, store, collection, mods, tracker, files,
                   content, todo, chunk_texts, chunk_embeddings, sum, prev,
                   ckVars, hVars>>

\* main, lines 58-65: load_file_sync with `?`, chunk_text, and the entry of
\* index_chunks up to its first embedding request.
LoadAndChunk ==
    /\ pc = "load"
    /\ \E readable \in BOOLEAN, extracts \in BOOLEAN :
        LET r == load_file_sync(dataDir, file_name, readable, extracts)
            chunks == chunk_text(r.content, chunk_size)
        IN /\ log' = Append(log, LogEntry("load", file_name, r.content, r.ok))
           /\ IF r.ok
              THEN /\ content' = r.content
                   /\ todo' = EmbeddingInputs(SliceChunks(chunks, embeddings_chunk_size))
                   /\ chunk_texts' = <<>> /\ chunk_embeddings' = <<>>
                   /\ pc' = "embed"
              ELSE /\ pc' = "exit_err"
                   /\ UNCHANGED <<content, todo, chunk_texts, chunk_embeddings>>
    /\ UNCHANGED <<run, dataDir, cwd, store, collection, mods, tracker, files,
                   files_to_process, file_name, sum, prev,
                   ckVars, hVars>>

\* main going back into index_chunks when it returns an error: the failed
\* request is issued again.
AfterIndexErrorRetries == "embed"

\* main without the `continue` of the error branch: it falls through to the
\* recording of the hash.
AfterIndexErrorFallsThrough == "record"

\* main, lines 65-68: where main goes when index_chunks returns an error
\* (`continue`: the next iteration of the loop).
AfterIndexError == "loop"

\* index_chunks, lines 77-124: one embedding request.  Each of the three `?`
\* returns the error from index_chunks, and main goes on with the next file.
EmbedChunk ==
    /\ pc = "embed" /\ todo # <<>>
    /\ \E ok \in BOOLEAN :
        /\ log' = Append(log, LogEntry("embed", file_name, Head(todo), ok))
        /\ IF ok
           THEN /\ chunk_embeddings' = Append(chunk_embeddings, EmbeddingOf(Head(todo)))
                /\ chunk_texts' = Append(chunk_texts, Head(todo))
                /\ todo' = Tail(todo)
                /\ pc' = "embed"
           ELSE /\ pc' = AfterIndexError
                /\ UNCHANGED <<todo, chunk_texts, chunk_embeddings>>
    /\ sum' = [sum EXCEPT !.anyEmbed = TRUE]
    /\ UNCHANGED <<run, dataDir, cwd, store, collection, mods, tracker, files,
                   files_to_process, file_name, content, prev,
                   ckVars, hVars>>

\* index_chunks leaving the loops as soon as it holds one embedding.
EmbedDoneEarly ==
    /\ pc = "embed" /\ (todo = <<>> \/ chunk_embeddings # <<>>)
    /\ IF chunk_embeddings # <<>>
       THEN pc' = "health_check" /\ UNCHANGED <<log, sum>>
       ELSE /\ pc' = "record"
            /\ log' = Append(log, LogEntry("index_chunks", file_name, <<>>, TRUE))
            /\ sum' = [sum EXCEPT !.indexed = @ \cup {file_name}]
    /\ UNCHANGED <<run, dataDir, cwd, store, collection, mods, tracker, files,
                   files_to_process, file_name, content, todo, chunk_texts, chunk_embeddings, prev,
                   ckVars, hVars>>

\* index_chunks, lines 128 and 210-223: the end of the loops.
EmbedDone ==
    /\ pc = "embed" /\ todo = <<>>
    /\ IF chunk_embeddings # <<>>
       THEN pc' = "health_check" /\ UNCHANGED <<log, sum>>
       ELSE /\ pc' = "record"
            /\ log' = Append(log, LogEntry("index_chunks", file_name, <<>>, TRUE))
            /\ sum' = [sum EXCEPT !.indexed = @ \cup {file_name}]
    /\ UNCHANGED <<run, dataDir, cwd, store, collection, mods, tracker, files,
                   files_to_process, file_name, content, todo, chunk_texts, chunk_embeddings, prev,
                   ckVars, hVars>>

\* index_chunks, lines 142-150: health_check; an error is returned to main.
HealthCheck ==
    /\ pc = "health_check"
    /\ \E ok \in BOOLEAN :
        /\ log' = Append(log, LogEntry("health_check", file_name, <<>>, ok))
        /\ pc' = IF ok THEN "upsert" ELSE AfterIndexError
    /\ UNCHANGED <<run, dataDir, cwd, store, collection, mods, tracker, files, files_to_process,
                   file_name, content, todo, chunk_texts, chunk_embeddings, sum, prev,
                   ckVars, hVars>>

\* index_chunks taking every answer of the vector store for a success: only
\* the Err of upsert_points is returned to main.
UpsertTrustingAnswer ==
    /\ pc = "upsert"
    /\ LET points == UpsertPoints(file_name, chunk_texts, chunk_embeddings) IN
       \E result \in {"ok_true", "ok_false", "err"} :
        /\ log' = Append(log, LogEntry("upsert", file_name, points, result = "ok_true"))
                  \o (IF result # "err"
                      THEN <<LogEntry("index_chunks", file_name, <<>>, TRUE)>> ELSE <<>>)
        /\ collection' = IF result = "ok_true" THEN ApplyUpsert(collection, points)
                         ELSE collection
        /\ pc' = IF result # "err" THEN "record" ELSE AfterIndexError
        /\ sum' = IF result # "err"
                  THEN [sum EXCEPT !.indexed = @ \cup {file_name}]
                  ELSE [sum EXCEPT !.upsertFailed = @ \cup {file_name}]
    /\ UNCHANGED <<run, dataDir, cwd, store, mods, tracker, files,
                   files_to_process, file_name, content, todo, chunk_texts, chunk_embeddings, prev,
                   ckVars, hVars>>

\* index_chunks, lines 169-209: upsert_points.  Ok(true) is a 200 answer;
\* Ok(false) and Err are both returned to main as an error.
Upsert ==
    /\ pc = "upsert"
    /\ LET points == UpsertPoints(file_name, chunk_texts, chunk_embeddings) IN
       \E result \in {"ok_true", "ok_false", "err"} :
        /\ log' = Append(log, LogEntry("upsert", file_name, points, result = "ok_true"))
                  \o (IF result = "ok_true"
                      THEN <<LogEntry("index_chunks", file_name, <<>>, TRUE)>> ELSE <<>>)
        /\ collection' = IF result = "ok_true" THEN ApplyUpsert(collection, points)
                         ELSE collection
        /\ pc' = IF result = "ok_true" THEN "record" ELSE AfterIndexError
        /\ sum' = IF result = "ok_true"
                  THEN [sum EXCEPT !.indexed = @ \cup {file_name}]
                  ELSE [sum EXCEPT !.upsertFailed = @ \cup {file_name}]
    /\ UNCHANGED <<run, dataDir, cwd, store, mods, tracker, files,
                   files_to_process, file_name, content, todo, chunk_texts, chunk_embeddings, prev,
                   ckVars, hVars>>

\* main, lines 70-75: the file is read again and, if the read succeeds, its
\* digest recorded.
RecordHash ==
    /\ pc = "record"
    /\ \E readable \in BOOLEAN :
        IF file_name \in DOMAIN dataDir /\ readable
        THEN LET md5 == Md5Hex(dataDir[file_name]) IN
             /\ tracker' = set_file_md5(tracker, file_name, md5)
             /\ log' = Append(log, LogEntry("record", file_name, dataDir[file_name], TRUE))
             /\ sum' = [sum EXCEPT !.recorded = @ \cup {file_name}]
        ELSE UNCHANGED <<tracker, log, sum>>
    /\ pc' = "loop"
    /\ UNCHANGED <<run, dataDir, cwd, store, collection, mods, files,
                   files_to_process, file_name, content, todo, chunk_texts, chunk_embeddings, prev,
                   ckVars, hVars>>

\* main, line 79: save_to_file with `?`.
SaveTracker ==
    /\ pc = "save"
    /\ \E ok \in BOOLEAN :
        /\ store' = IF ok THEN save_to_file(tracker) ELSE store
        /\ pc' = IF ok THEN "exit_ok" ELSE "exit_err"
        /\ log' = <<LogEntry("save", "", <<>>, ok)>>
    /\ UNCHANGED <<run, dataDir, cwd, collection, mods, tracker, files, files_to_process,
                   file_name, content, todo, chunk_texts, chunk_embeddings, sum, prev,
                   ckVars, hVars>>

\* The binary is started again, in the same working directory.
NextRun ==
    /\ pc \in {"exit_ok", "exit_err"} /\ run < MaxRuns
    /\ run' = run + 1 /\ pc' = "load_tracker"
    /\ tracker' = FileTrackerNew
    /\ files' = <<>> /\ files_to_process' = <<>> /\ file_name' = "" /\ content' = <<>>
    /\ todo' = <<>> /\ chunk_texts' = <<>> /\ chunk_embeddings' = <<>>
    /\ prev' = [sum EXCEPT !.exit = pc] /\ sum' = NoSum /\ log' = <<>>
    /\ UNCHANGED <<dataDir, cwd, store, collection, mods, ckVars, hVars>>

\* reset_documents, lines 81-97: the text written to the tracker file, "{}".
ClearedStore == StoreOf("empty_object", EmptyMap)

\* reset_documents main, lines 53-99, run while the indexing binary is not
\* running: the collection is deleted (a failure is only logged), then "{}" is
\* written to the tracker file, whether it exists or not; a failure of the
\* write leaves the file as it was.
ResetDocuments ==
    /\ pc \in {"exit_ok", "exit_err"} /\ run < MaxRuns
    /\ \E deleted \in BOOLEAN : collection' = IF deleted THEN EmptyMap ELSE collection
    /\ \E ok \in BOOLEAN :
        /\ store' = IF ok THEN ClearedStore ELSE store
        /\ log' = <<LogEntry("reset_documents", "", <<>>, ok)>>
    /\ UNCHANGED <<run, pc, dataDir, cwd, mods, tracker, files, files_to_process,
                   file_name, content, todo, chunk_texts, chunk_embeddings, sum, prev,
                   ckVars, hVars>>

\* Whether the next step of main reads the content of file n of the data
\* directory.  A write to a file commutes with every step that does not read
\* it, so the writes are placed right before the reads.
ReadsNext(n) ==
    \/ pc = "select"
    \/ pc \in {"load", "record"} /\ n = file_name

\* The texts the environment writes.
WriteTexts == {TxtA, TxtNone}

\* The environment rewrites a file of the data directory.
ModifyFile ==
    /\ mods < MaxMods
    /\ \E n \in DOMAIN dataDir, t \in WriteTexts :
        /\ ReadsNext(n) /\ t # dataDir[n]
        /\ dataDir' = [dataDir EXCEPT ![n] = t]
        /\ sum' = [sum EXCEPT !.written = @ \cup {n}]
    /\ mods' = mods + 1
    /\ UNCHANGED <<run, pc, cwd, store, collection, tracker, files, files_to_process,
                   file_name, content, todo, chunk_texts, chunk_embeddings, log, prev,
                   ckVars, hVars>>

(***************************************************************************)
(* handle_rag_request (src/rag_proxy/handler.rs), one action per step.     *)
(***************************************************************************)
\* handler.rs lines 87-120: the UTF-8 check, the typed parse and the question.
HandlerParse ==
    /\ hpc = "parse"
    /\ LET parsed_request == ParseChatCompletionRequest(request) IN
       IF ~IsUtf8(request)
       THEN /\ response' = ErrorResponse("Unknown") /\ hpc' = "done"
            /\ UNCHANGED <<chat_request, user_question>>
       ELSE IF ~parsed_request.ok
       THEN /\ response' = ErrorResponse("Json") /\ hpc' = "done"
            /\ UNCHANGED <<chat_request, user_question>>
       ELSE /\ chat_request' = parsed_request.messages
            /\ user_question' = UserQuestion(parsed_request.messages)
            /\ hpc' = "embed"
            /\ UNCHANGED response
    /\ UNCHANGED <<request, search_results, context, modified_request_str, calls,
                   llm_response_body, runVars, ckVars>>

RetrieverEmbedFallingBack ==
    /\ hpc = "embed"
    /\ \E outcome \in {"ok", "send_failed", "undecodable"} :
        /\ calls' = Append(calls, Call("embedding", user_question, outcome = "ok"))
        /\ hpc' = IF outcome = "ok" THEN "search" ELSE "inject"
        /\ UNCHANGED response
    /\ UNCHANGED <<request, chat_request, user_question, search_results, context,
                   modified_request_str, llm_response_body, runVars, ckVars>>

\* retriever.rs lines 53-80: the embedding request for the question.  Each
\* failure (send, body, decoding) is returned as a message, and the `?` of
\* handler.rs line 126 makes an AppError of it.
RetrieverEmbed ==
    /\ hpc = "embed"
    /\ \E outcome \in {"ok", "send_failed", "undecodable"} :
        /\ calls' = Append(calls, Call("embedding", user_question, outcome = "ok"))
        /\ IF outcome = "ok"
           THEN hpc' = "search" /\ UNCHANGED response
           ELSE hpc' = "done" /\ response' = ErrorResponse(FromString)
    /\ UNCHANGED <<request, chat_request, user_question, search_results, context, modified_request_str,
                   llm_response_body, runVars, ckVars>>

\* retriever.rs lines 82-114 with search_points: the search request and the
\* context made of its results.
RetrieverSearch ==
    /\ hpc = "search"
    /\ \E outcome \in {"ok", "send_failed", "status_not_200", "undecodable"} :
        /\ calls' = Append(calls, Call("search", SearchRequest(EmbeddingOf(user_question)),
                                       outcome = "ok"))
        /\ IF outcome = "ok"
           THEN /\ \E answer \in SearchAnswers :
                    /\ search_results' = answer
                    /\ context' = ContextOf(answer)
                /\ hpc' = "inject" /\ UNCHANGED response
           ELSE /\ hpc' = "done" /\ response' = ErrorResponse(FromString)
                /\ UNCHANGED <<search_results, context>>
    /\ UNCHANGED <<request, chat_request, user_question, modified_request_str, llm_response_body, runVars, ckVars>>

\* handler.rs lines 129-245: the payload to forward.
HandlerInject ==
    /\ hpc = "inject"
    /\ LET modified == InjectContext(request, chat_request, context,
                                     system_message_fingerprint_length)
       IN IF modified.ok
          THEN /\ modified_request_str' = modified.value
               /\ hpc' = "llm" /\ UNCHANGED response
          ELSE /\ hpc' = "done" /\ response' = PanicResponse
               /\ UNCHANGED modified_request_str
    /\ UNCHANGED <<request, chat_request, user_question, search_results, context, calls, llm_response_body, runVars, ckVars>>

\* handler.rs lines 247-280: the request to the LLM backend and the response.
HandlerSendLlm ==
    /\ hpc = "llm"
    /\ \E outcome \in {"ok", "send_failed", "body_failed"} :
        /\ calls' = Append(calls, Call("llm", modified_request_str, outcome # "send_failed"))
        /\ IF outcome = "ok"
           THEN \E body \in LlmBodies :
                    /\ llm_response_body' = <<body>>
                    /\ response' = LlmResponse(body)
           ELSE /\ response' = ErrorResponse("Reqwest")
                /\ UNCHANGED llm_response_body
    /\ hpc' = "done"
    /\ UNCHANGED <<request, chat_request, user_question, search_results, context,
                   modified_request_str, runVars, ckVars>>

(***************************************************************************)
(* Properties of the indexing run.                                         *)
(***************************************************************************)
\* The run has gone through get_changed_files.
HasSelected ==
    \/ pc \in {"loop", "load", "embed", "health_check", "upsert", "record", "save", "exit_ok"}
    \/ pc = "exit_err" /\ log # <<>> /\ Last(log).op # "load_tracker"

\* get_changed_files has just returned.
JustSelected == pc = "loop" /\ log # <<>> /\ Last(log).op = "select"

\* The last step taken for the current file was a failed request of kind op.
JustFailed(op) == log # <<>> /\ Last(log).op = op /\ ~Last(log).ok

\* C1: when the vector-store health check fails, the whole run aborts, and no
\* embedding request has been issued in the run before that.
C1_HealthFailureAbortsBeforeEmbedding ==
    JustFailed("health_check") => (pc = "exit_err" /\ ~sum.anyEmbed)

\* C2: when the embedding request of one chunk fails, only that chunk is
\* skipped: index_chunks goes on embedding, so that when the file ends every
\* non-empty chunk of it has had its request, and the chunks that were embedded
\* have been sent in an upsert.
C2_EmbeddingFailureSkipsOnlyThatChunk ==
    /\ JustFailed("embed") => pc = "embed"
    /\ (pc = "loop" /\ \E i \in Positions(log, "embed") : ~log[i].ok) =>
          /\ Cardinality(Positions(log, "embed")) =
                Len(EmbeddingInputs(SliceChunks(chunk_text(content, chunk_size),
                                                embeddings_chunk_size)))
          /\ (\E i \in Positions(log, "embed") : log[i].ok) =>
                \E u \in Positions(log, "upsert") :
                    [k \in 1..Len(log[u].arg) |-> log[u].arg[k].payload.text] = chunk_texts

C4_SecondRunDoesNothing ==
    (/\ run > 1 /\ prev.exit = "exit_ok"
     /\ prev.selected \subseteq (prev.indexed \cap prev.recorded)
     /\ prev.written = {} /\ sum.written = {})
        => (sum.selected = {} /\ ~sum.anyEmbed)

\* The same, for a process whose working directory is the data directory.
SecondRunDoesNothingInDataDir == cwd = "data_dir" => C4_SecondRunDoesNothing

\* C5: no upsert request is sent unless the collection was found to exist, or
\* was created, earlier (index_chunks sends neither request, so the log holds
\* neither).
C5_UpsertOnlyAfterCollectionEnsured ==
    \A u \in Positions(log, "upsert") :
        \E e \in 1..(u - 1) :
            log[e].op \in {"collection_exists", "create_collection"} /\ log[e].ok

\* C6: right after the hash of the bytes B of a file is recorded for its name,
\* is_file_changed answers false for the name with B and true with any bytes of
\* another digest, and the recording changes the answer for no other name.
C6_RecordedThenUnchanged ==
    [][(pc = "record" /\ pc' = "loop" /\ Last(log').op = "record") =>
          LET B == dataDir[file_name] IN
          /\ ~is_file_changed(tracker', file_name, B)
          /\ \A B2 \in FileTexts :
                Md5Hex(B2) # Md5Hex(B) => is_file_changed(tracker', file_name, B2)
          /\ \A n \in Names \ {file_name}, B2 \in FileTexts :
                is_file_changed(tracker', n, B2) = is_file_changed(tracker, n, B2)]_vars

\* C6 witness: a hash has just been recorded for a name, another name being
\* tracked too, and each name answers unchanged for its bytes and changed for
\* other bytes.
C6_Witness ==
    /\ log # <<>> /\ Last(log).op = "record" /\ DOMAIN tracker = Names
    /\ \A n \in Names :
          /\ n \in DOMAIN dataDir /\ ~is_file_changed(tracker, n, dataDir[n])
          /\ \E B2 \in FileTexts : is_file_changed(tracker, n, B2)
    /\ tracker["a.txt"] # tracker["b.pdf"]

\* The candidates that have no stored hash, or whose bytes in directory dir
\* have another digest than the stored one.
ChangedIn(dir) ==
    {n \in Names : n \notin DOMAIN tracker \/ (n \in DOMAIN dir /\ Md5Hex(dir[n]) # tracker[n])}

\* C7: get_changed_files returns exactly the candidates that have no stored
\* hash or whose current bytes in the data directory have another digest.
C7_ChangedFilesExact ==
    JustSelected => files_to_process = SeqFilter(files, ChangedIn(dataDir))

SentPoints ==
    UNION {SeqToSet(log[u].arg) : u \in Positions(log, "upsert")}

\* C9: the id of a point is a function of its chunk text alone: two points sent
\* with the same text have the same id, whatever their file and position, they
\* address the stored point of that text, and the collection holds at most one
\* point per text.
C9_PointIdByTextAlone ==
    /\ \A p \in SentPoints, q \in SentPoints :
          p.payload.text = q.payload.text => p.id = q.id
    /\ \A p \in SentPoints, id \in DOMAIN collection :
          collection[id].payload.text = p.payload.text => id = p.id
    /\ \A id1 \in DOMAIN collection, id2 \in DOMAIN collection :
          collection[id1].payload.text = collection[id2].payload.text => id1 = id2

\* C9 witness: in a second run over the unmodified directory, a file indexed
\* by the first run has been upserted again, in a request that carries one
\* text at two positions, and the collection holds one point for that text.
C9_Witness ==
    /\ run > 1 /\ prev.written = {} /\ sum.written = {}
    /\ \E u \in Positions(log, "upsert") :
        /\ log[u].ok /\ log[u].file \in prev.indexed
        /\ \E i \in 1..Len(log[u].arg), j \in 1..Len(log[u].arg) :
              /\ i # j /\ log[u].arg[i].payload.text = log[u].arg[j].payload.text
              /\ Cardinality({id \in DOMAIN collection :
                    collection[id].payload.text = log[u].arg[i].payload.text}) = 1

RunIdle ==
    /\ run = 0 /\ pc = "idle" /\ dataDir = EmptyMap /\ cwd = "data_dir"
    /\ store = StoreOf("missing", EmptyMap) /\ collection = EmptyMap /\ mods = 0
    /\ tracker = FileTrackerNew
    /\ files = <<>> /\ files_to_process = <<>> /\ file_name = "" /\ content = <<>>
    /\ todo = <<>> /\ chunk_texts = <<>> /\ chunk_embeddings = <<>>
    /\ log = <<>> /\ sum = NoSum /\ prev = NoSum

(***************************************************************************)
(* Properties of the chunker.                                              *)
(***************************************************************************)
\* The number of lines joined in a chunk.
LinesOf(chunk) == Len(SplitLF(chunk))

\* C10: chunk_text is a greedy line packer: an iteration flushes the buffer
\* exactly when the buffer is not empty and the buffer, the line break and the
\* next line together have more than chunk_size characters; hence a returned
\* chunk of two or more lines has at most chunk_size characters, and a chunk of
\* more than chunk_size characters is a single line.
C10_GreedyLinePackerInCharacters ==
    /\ \A k \in 1..Len(ck_hist) :
          ck_hist[k].flushed <=>
              /\ ck_hist[k].before # <<>>
              /\ CharLen(ck_hist[k].before) + 1 + CharLen(ck_hist[k].line) > ck_size
    /\ ck_pc = "done" =>
          \A c \in 1..Len(ck_st.chunks) :
              /\ LinesOf(ck_st.chunks[c]) >= 2 => CharLen(ck_st.chunks[c]) <= ck_size
              /\ CharLen(ck_st.chunks[c]) > ck_size => LinesOf(ck_st.chunks[c]) = 1

RECURSIVE JoinLF(_)
\* The strings of a sequence, in order, with a line break between two neighbours.
JoinLF(strings) ==
    IF strings = <<>> THEN <<>>
    ELSE IF Len(strings) = 1 THEN strings[1]
    ELSE strings[1] \o <<LF>> \o JoinLF(Tail(strings))

RECURSIVE NonWhitespace(_)
\* The characters of s that are not whitespace, in order.
NonWhitespace(s) ==
    IF s = <<>> THEN <<>>
    ELSE IF IsWhitespace(Head(s)) THEN NonWhitespace(Tail(s))
    ELSE <<Head(s)>> \o NonWhitespace(Tail(s))

RECURSIVE LosesOnlyWhitespace(_, _)
\* Whether `kept` is `full` with some of its whitespace characters deleted.
LosesOnlyWhitespace(kept, full) ==
    IF full = <<>> THEN kept = <<>>
    ELSE \/ kept # <<>> /\ Head(kept) = Head(full) /\ LosesOnlyWhitespace(Tail(kept), Tail(full))
         \/ IsWhitespace(Head(full)) /\ LosesOnlyWhitespace(kept, Tail(full))

RECURSIVE TrimmedLines(_)
\* The lines of a sequence of lines that are not blank, each trimmed.
TrimmedLines(lines) ==
    IF lines = <<>> THEN <<>>
    ELSE IF Trim(Head(lines)) = <<>> THEN TrimmedLines(Tail(lines))
    ELSE <<Trim(Head(lines))>> \o TrimmedLines(Tail(lines))

RECURSIVE LinesOfChunks(_)
\* The lines of the chunks, chunk after chunk.
LinesOfChunks(chunks) ==
    IF chunks = <<>> THEN <<>>
    ELSE SplitLF(Head(chunks)) \o LinesOfChunks(Tail(chunks))

\* Whether the text has no whitespace but single line breaks between its lines.
IsPlainLines(text) ==
    /\ text # <<>> /\ Head(text) # LF /\ text[Len(text)] # LF
    /\ \A i \in 1..Len(text) : text[i] # SP
    /\ \A i \in 1..(Len(text) - 1) : ~(text[i] = LF /\ text[i + 1] = LF)

CallsTo(op) == {i \in 1..Len(calls) : calls[i].op = op}

\* The messages of the request of a role, by position.
MessagesOfRole(role) == {k \in 1..Len(chat_request) : chat_request[k].role = role}

Latest(positions) == CHOOSE k \in positions : \A j \in positions : j <= k

\* C13: when the payload has a message of role "user", the question given to
\* the retriever is the text of the last such message (the text parts of a
\* multi-part content joined), whatever messages come after it.
C13_QuestionIsLastUserMessage ==
    \A i \in CallsTo("embedding") :
        MessagesOfRole(RoleUser) # {} =>
            calls[i].arg = ContentText(chat_request[Latest(MessagesOfRole(RoleUser))].content)

\* C14: when the payload has no message of role "user", the question given
\* to the retriever is the placeholder.
C14_NoUserMessageGivesPlaceholder ==
    \A i \in CallsTo("embedding") :
        MessagesOfRole(RoleUser) = {} => calls[i].arg = NoQuestionProvided

\* C15: when the context is empty, the payload sent to the LLM backend is the
\* payload received, byte for byte.
C15_EmptyContextForwardsUnmodified ==
    \A i \in CallsTo("llm") : context = <<>> => calls[i].arg = request

\* C15 witness: a payload with a system message was forwarded after a search
\* that gave an empty context.
C15_Witness ==
    /\ CallsTo("llm") # {} /\ context = <<>>
    /\ MessagesOfRole(RoleSystem) # {}
    /\ search_results # <<>>
    /\ modified_request_str = request

\* The positions of the messages in the text of the payload.
RawMessagePositions(raw) ==
    ParseArray(raw, MemberAt(ParseObject(raw, SkipWs(raw, 1)).value, KeyMessages)).value

\* The position of the content of the k-th message in the text of the payload.
RawContentAt(raw, k) ==
    MemberAt(ParseObject(raw, RawMessagePositions(raw)[k]).value, KeyContent)

\* The payload with `block` appended to the text of the content (a string) at
\* position content_at, nothing else changed.
WithContentAppended(raw, content_at, text, block) ==
    SubSeq(raw, 1, content_at - 1) \o RawString(text \o block)
        \o SubSeq(raw, SkipValue(raw, content_at), Len(raw))

\* C16: with a system message (of a string content) and a non-empty context,
\* the payload sent to the LLM backend is the payload received with the
\* context block appended to the content of the last system message, every
\* other byte the same.
C16_ContextAppendedToSystemMessage ==
    \A i \in CallsTo("llm") :
        (/\ context # <<>>
         /\ MessagesOfRole(RoleSystem) # {}
         /\ chat_request[Latest(MessagesOfRole(RoleSystem))].content.kind = "Text")
        => calls[i].arg =
             WithContentAppended(request,
                 RawContentAt(request, Latest(MessagesOfRole(RoleSystem))),
                 chat_request[Latest(MessagesOfRole(RoleSystem))].content.text,
                 ContextHeader \o context)

\* The system message that holds the context block, as a JSON text.
ContextSystemMessage == SystemMessageOpen \o JsonEscape(ContextHeader \o context) \o SystemMessageClose

\* The payload with `text` inserted right after the token "messages":[.
InsertedAfterToken(raw, text) ==
    LET after == Find(raw, MessagesToken) + Len(MessagesToken) IN
    SubSeq(raw, 1, after) \o text \o SubSeq(raw, after + 1, Len(raw))

\* C17: without a system message, with the token "messages":[ and a
\* non-empty context, the payload sent to the LLM backend is the payload
\* received with the new system message as first element of the array
\* (followed by a comma, which an empty array may do without).
C17_SystemMessageInsertedFirst ==
    \A i \in CallsTo("llm") :
        (/\ context # <<>>
         /\ MessagesOfRole(RoleSystem) = {}
         /\ Find(request, MessagesToken) # -1)
        => \/ calls[i].arg = InsertedAfterToken(request, ContextSystemMessage \o <<",">>)
           \/ /\ chat_request = <<>>
              /\ calls[i].arg = InsertedAfterToken(request, ContextSystemMessage)

\* The texts of the search results that have a payload, in order.
ResultTexts == [k \in 1..Len(SelectSeq(search_results, LAMBDA point : point.has_payload)) |->
                   SelectSeq(search_results, LAMBDA point : point.has_payload)[k].text]

\* C18: after a successful search the context is the texts of the results, in
\* order, joined by a blank line (the empty string when there is none), and the
\* search request carries the configured limit and score threshold.
C18_ContextIsJoinedResultTexts ==
    \A i \in CallsTo("search") :
        /\ calls[i].arg.limit = limit
        /\ calls[i].arg.score_threshold = score_threshold
        /\ calls[i].ok =>
            /\ context = JoinWith(ResultTexts, <<LF, LF>>)
            /\ ResultTexts = <<>> => context = <<>>
            /\ response.kind # "error" \/ CallsTo("llm") # {}

\* C19: when the embedding request for the question fails, the handler
\* answers an error, holds no context, and sends nothing to the vector store
\* nor to the LLM backend.
C19_EmbeddingFailureStopsTheRequest ==
    \A i \in CallsTo("embedding") :
        ~calls[i].ok =>
            /\ hpc = "done" /\ response.kind = "error"
            /\ context = <<>> /\ modified_request_str = <<>>
            /\ CallsTo("search") = {} /\ CallsTo("llm") = {}

\* C19 witness: the only request of the handler was the failed embedding
\* request, and the client is answered an error.
C19_Witness ==
    /\ hpc = "done" /\ Len(calls) = 1
    /\ calls[1].op = "embedding" /\ ~calls[1].ok
    /\ response.kind = "error"
    /\ MessagesOfRole(RoleUser) # {}

\* C20: an error response has a JSON body, and its status is 502 when a
\* request to a service failed, 400 when the payload is text that is not the
\* JSON of a chat request, and 500 otherwise.
C20_ErrorStatusByKind ==
    response.kind = "error" =>
        /\ IsJson(response.body) /\ response.content_type = "application/json"
        /\ response.status =
              IF calls # <<>> THEN 502
              ELSE IF IsUtf8(request) THEN 400
              ELSE 500

\* C21: after a request to the LLM backend whose body was read, the handler
\* answers 200 with that body: as JSON (the same value, serialized) with the
\* JSON content type when it parses as JSON, else the raw text as text/plain.
C21_LlmBodyReturnedAsJsonOrText ==
    \A i \in CallsTo("llm") :
        (calls[i].ok /\ llm_response_body # <<>>) =>
            /\ response.kind = "ok" /\ response.status = 200
            /\ IF IsJson(llm_response_body[1])
               THEN /\ response.content_type = "application/json"
                    /\ IsJson(response.body)
                    /\ response.body = JsonBody(llm_response_body[1])
               ELSE /\ response.content_type = "text/plain"
                    /\ response.body = llm_response_body[1]

\* C21 witness: the LLM backend answered a body that is not JSON, and the
\* client is answered that text as text/plain.
C21_Witness ==
    /\ hpc = "done" /\ CallsTo("llm") # {}
    /\ response.kind = "ok" /\ response.content_type = "text/plain"
    /\ llm_response_body = << <<"{", QUOTE, "a", QUOTE>> >>
    /\ response.body = llm_response_body[1]

(***************************************************************************)
(* Properties of the requests of both paths.                               *)
(***************************************************************************)
\* The entries of kind op of the log of the current file, in order.
LogOf(op) == SelectSeq(log, LAMBDA entry : entry.op = op)

\* The non-empty chunks of the content loaded for the current file, in order.
LoadedChunks ==
    IF LogOf("load") = <<>> THEN <<>>
    ELSE SelectSeq(chunk_text(LogOf("load")[1].arg, chunk_size), LAMBDA chunk : Trim(chunk) # <<>>)

\* C22: a chat request issues at most one embedding request, one search
\* request and one LLM request; the indexing of a file issues at most one
\* embedding request per chunk, in the order of the chunks, at most one
\* health check and one upsert request; and a request that failed is the
\* last one issued for the chat request or for the file.
C22_NoRequestIsReissued ==
    /\ \A op \in {"embedding", "search", "llm"} : Cardinality(CallsTo(op)) <= 1
    /\ \A i \in 1..Len(calls) : ~calls[i].ok => i = Len(calls)
    /\ (log # <<>> /\ Last(log).op = "embed") =>
        LET embeds == LogOf("embed")
            loaded == LoadedChunks
        IN /\ Len(embeds) <= Len(loaded)
           /\ \A k \in 1..Len(embeds) : embeds[k].arg = loaded[k]
    /\ Len(LogOf("health_check")) <= 1
    /\ Len(LogOf("upsert")) <= 1
    /\ \A i \in 1..Len(log) :
        (log[i].op \in {"embed", "health_check", "upsert"} /\ ~log[i].ok) => i = Len(log)

\* C22 witness: the second embedding request of a file failed and the loop is
\* at the next file with no further request issued for it.
C22_Witness ==
    /\ pc = "loop"
    /\ Len(LogOf("embed")) = 2 /\ Len(LoadedChunks) = 3
    /\ LogOf("embed")[1].ok /\ ~LogOf("embed")[2].ok
    /\ Last(log).op = "embed"

\* The last n characters of a text, the whole text when it has no more.
LastChars(text, n) ==
    IF Len(text) <= n THEN text ELSE SubSeq(text, Len(text) - n + 1, Len(text))

\* Whether the handler has a context to inject next to a system message.
InjectsIntoSystemMessage ==
    /\ hpc \in {"inject", "llm", "done"}
    /\ \E i \in CallsTo("search") : calls[i].ok
    /\ context # <<>>
    /\ MessagesOfRole(RoleSystem) # {}

\* C24: when a context is injected next to a system message, the anchor is
\* the last system_message_fingerprint_length characters of the content of
\* the last system message (the whole content when it has no more), and the
\* handler does not abort.
C24_AnchorIsLastCharacters ==
    InjectsIntoSystemMessage =>
        /\ Fingerprint(OriginalSystemContent(chat_request).text,
                       system_message_fingerprint_length).ok
        /\ Fingerprint(OriginalSystemContent(chat_request).text,
                       system_message_fingerprint_length).value
             = LastChars(OriginalSystemContent(chat_request).text,
                         system_message_fingerprint_length)
        /\ response.kind # "panic"

\* The positions of the occurrences of pat in s.
Occurrences(s, pat) == {i \in 1..(Len(s) + 1) : MatchesAt(s, i, pat)}

\* C25: with a system message and a non-empty context, the context block
\* stands at exactly one place of the payload sent to the LLM backend, at the
\* end of the content of a message.
C25_ContextBlockInsertedOnce ==
    \A i \in CallsTo("llm") :
        InjectsIntoSystemMessage =>
            /\ Cardinality(Occurrences(calls[i].arg, JsonEscape(ContextHeader \o context))) = 1
            /\ \A at \in Occurrences(calls[i].arg, JsonEscape(ContextHeader \o context)) :
                MatchesAt(calls[i].arg, at + Len(JsonEscape(ContextHeader \o context)),
                          <<QUOTE, "}">>)

\* C26: when the payload received is a well-formed JSON text, so is the
\* payload sent to the LLM backend, whichever way the context was injected.
C26_ForwardedPayloadIsJson ==
    \A i \in CallsTo("llm") : IsJson(request) => IsJson(calls[i].arg)

\* C27: a run that finds the tracker store as the reset operation wrote it
\* loads it without error as an empty tracker, and selects every file of the
\* data directory.
C27_ClearedStoreLoadsAsEmptyTracker ==
    /\ (store = ClearedStore /\ log # <<>> /\ log[1].op = "load_tracker") =>
        (log[1].ok /\ tracker = EmptyMap /\ pc = "list")
    /\ (store = ClearedStore /\ pc \in {"loop", "load", "embed", "health_check", "upsert", "record", "save"}) =>
        sum.selected = SeqToSet(files)

\* C28: when a run has ended, otherwise than by a failure of the write of
\* the store itself, the store holds every hash the run recorded.
C28_RecordedHashesArePersisted ==
    (pc \in {"exit_ok", "exit_err"} /\ (log = <<>> \/ Last(log).op # "save")) =>
        /\ sum.recorded # {} => store.kind = "tracker_json"
        /\ \A f \in sum.recorded :
            /\ f \in DOMAIN store.files
            /\ f \in DOMAIN tracker /\ store.files[f] = tracker[f]

\* C29: the hash recorded for a text file is the digest of the bytes that
\* were loaded and indexed, whatever was written to the file since.
C29_RecordedHashIsOfLoadedBytes ==
    (LogOf("record") # <<>> /\ Extension(file_name) = "txt") =>
        /\ LogOf("load") # <<>>
        /\ LogOf("record")[1].arg = LogOf("load")[1].arg
        /\ file_name \in DOMAIN tracker
        /\ tracker[file_name] = Md5Hex(content)

\* C30: when the hash of a file has been recorded, every non-empty chunk of
\* the content loaded for it has been embedded by a successful request and
\* is the text of a point of a successful upsert.
C30_RecordedFileWasFullyIndexed ==
    /\ sum.recorded \subseteq sum.indexed
    /\ (log # <<>> /\ Last(log).op = "record") =>
        LET embeds == LogOf("embed")
            upserts == LogOf("upsert")
            loaded == LoadedChunks
        IN /\ Len(embeds) = Len(loaded)
           /\ \A k \in 1..Len(loaded) :
               /\ embeds[k].ok
               /\ embeds[k].arg = loaded[k]
           /\ loaded # <<>> =>
               /\ Len(upserts) = 1
               /\ upserts[1].ok
               /\ Len(upserts[1].arg) = Len(loaded)
               /\ \A k \in 1..Len(loaded) :
                   /\ upserts[1].arg[k].payload.text = loaded[k]
                   /\ upserts[1].arg[k].vector = EmbeddingOf(loaded[k])
                   /\ upserts[1].arg[k].id \in DOMAIN collection

\* C30 witness: the hash of a file of three non-empty chunks has been
\* recorded after its upsert.
C30_Witness ==
    /\ pc = "loop" /\ LogOf("record") # <<>> /\ file_name \in sum.recorded
    /\ Len(LoadedChunks) = 3 /\ LogOf("upsert") # <<>> /\ LogOf("upsert")[1].ok

\* The place of a step in the processing of a file.
StepRank(op) ==
    CASE op = "load" -> 1
      [] op = "embed" -> 2
      [] op = "health_check" -> 3
      [] op = "upsert" -> 4
      [] op = "index_chunks" -> 5
      [] op = "record" -> 6
      [] OTHER -> 0

\* C23: the steps taken since the loop took a file are all steps of that
\* file, in the order load, embedding requests, health check, upsert, record;
\* an embedding request is issued only when all the earlier ones have
\* succeeded, the upsert only after one successful embedding request per
\* chunk, and the loop takes a file only when the previous one has ended.
C23_FilesAndRequestsInSequence ==
    /\ \A i \in 1..Len(log) :
        StepRank(log[i].op) > 0 =>
            /\ log[i].file = file_name
            /\ \A j \in 1..(i - 1) :
                /\ StepRank(log[j].op) <= StepRank(log[i].op)
                /\ log[j].ok
    /\ (\E i \in 1..Len(log) : log[i].op = "upsert") =>
        LET embeds == LogOf("embed")
            loaded == LoadedChunks
        IN /\ Len(embeds) = Len(loaded)
           /\ \A k \in 1..Len(loaded) : embeds[k].arg = loaded[k]
    /\ pc \in {"embed", "health_check", "upsert", "record"} =>
        (log # <<>> /\ log[1].op = "load" /\ \A i \in 2..Len(log) : log[i].op # "load")
    /\ pc = "load" => log = <<>>

\* C23 witness: the second file of a run has been embedded chunk after chunk
\* and upserted, the first having been indexed before.
C23_Witness ==
    /\ pc = "record" /\ sum.indexed = DOMAIN dataDir /\ Cardinality(DOMAIN dataDir) = 2
    /\ Len(LogOf("embed")) = 3 /\ Len(LogOf("upsert")) = 1
    /\ Last(log).op = "index_chunks"

Init == RunInit /\ CkIdle /\ HandlerIdle

Next ==
    \/ LoadTracker \/ ListFiles \/ SelectChanged \/ LoopHead \/ LoadAndChunk
    \/ EmbedChunk \/ EmbedDone \/ HealthCheck \/ Upsert \/ RecordHash \/ SaveTracker
    \/ NextRun \/ ModifyFile

\* The indexing binary, run MaxRuns times over a data directory.
Spec == Init /\ [][Next]_vars

ChunkInit == CkInit /\ RunIdle /\ HandlerIdle
ChunkNext == CkLine \/ CkReturn

\* One call of chunk_text.
SpecChunk == ChunkInit /\ [][ChunkNext]_vars

ProxyInit == HandlerInit /\ RunIdle /\ CkIdle
ProxyNext ==
    \/ HandlerParse \/ RetrieverEmbed \/ RetrieverSearch \/ HandlerInject \/ HandlerSendLlm

\* One chat request handled by handle_rag_request.
SpecProxy == ProxyInit /\ [][ProxyNext]_vars

ResetNext == Next \/ ResetDocuments

\* The indexing binary run MaxRuns times, reset_documents run between runs.
SpecReset == Init /\ [][ResetNext]_vars

EitherInit == Init \/ ProxyInit
EitherNext == Next \/ ProxyNext

\* An indexing run or a chat request.
SpecEither == EitherInit /\ [][EitherNext]_vars
====
